---- MODULE Spec2Model ----
(***************************************************************************)
(* Model of fetch_iced_docs.py: main() and the stage functions it calls    *)
(* (clone_iced_book, build_cargo_docs, convert_cargo_docs, fetch_examples, *)
(* create_index).  Subprocesses, the docs2markdown converter and the       *)
(* filesystem are the environment: every outcome they can produce is a     *)
(* nondeterministic choice; what the script does with the outcome is       *)
(* translated from the code.                                               *)
(***************************************************************************)
EXTENDS Integers, Sequences, FiniteSets, TLC

\* ---- bounds ----
MaxCrates == 2
MaxFiles == 2

CrateNames == {"iced", "iced_core"}

\* ---- inputs of main ----
RECURSIVE SeqsUpTo(_, _)
SeqsUpTo(S, n) ==
  IF n = 0 THEN {<<>>}
  ELSE LET shorter == SeqsUpTo(S, n - 1)
       IN shorter \cup {Append(s, x) : s \in {t \in shorter : Len(t) = n - 1}, x \in S}

CrateLists == {s \in SeqsUpTo(CrateNames, MaxCrates) : Len(s) > 0}
ResultLists == SeqsUpTo({"ok", "err"}, MaxFiles)

VARIABLES
  crates,            \* main's crates option
  include_examples,  \* main's include_examples option
  pc,                \* position of the run
  success_count,     \* main's success_count
  total_tasks,       \* main's total_tasks
  exit_code,         \* process exit status, -1 while running
  fault_cause,       \* what raised the exception that left main, "none" if nothing did
  stages,            \* stages entered so far, in order
  book_ret,          \* return value of clone_iced_book: "none" | "True" | "False"
  build_ret,         \* return value of build_cargo_docs
  ex_ret,            \* return value of fetch_examples
  conv_ret,          \* return values of the convert_cargo_docs calls, in call order
  conv_called,       \* crates convert_cargo_docs was called for, in call order
  crate_idx,         \* position in crates of main's "for crate in crates" loop
  fs,                \* entries existing under output_dir
  api_dirs,          \* crates c for which <c>-api holds converted output
  book_has_src,      \* book-src/src exists
  repo_has_examples, \* iced-repo-temp/examples exists
  doc_dirs,          \* crates c for which cargo-temp/target/doc/<c> exists
  copied,            \* stages whose copytree finished: subset of {"book","examples"}
  rm_failed,         \* scratch directories whose removal failed
  conv_results,      \* what convert_directory yields for the current crate
  conv_raises,       \* convert_directory raises after yielding conv_results
  conv_idx,          \* number of yielded results consumed
  conv_success,      \* convert_cargo_docs's success_count
  conv_error,        \* convert_cargo_docs's error_count
  conv_how,          \* how the current call ended: "none"|"nodocs"|"exhausted"|"raised"
  clone_attempts,    \* refs fetch_examples tried to clone, in order
  primary_rc,        \* returncode of the tag clone, -1 before it ran
  fallback_rc,       \* returncode of the default-branch clone, -1 before it ran
  readme             \* text written to README.md, <<>> before

vars == <<crates, include_examples, pc, success_count, total_tasks, exit_code,
          fault_cause,
          stages, book_ret, build_ret, ex_ret, conv_ret, conv_called, crate_idx,
          fs, api_dirs, book_has_src, repo_has_examples, doc_dirs, copied, rm_failed,
          conv_results, conv_raises, conv_idx, conv_success, conv_error,
          conv_how, clone_attempts, primary_rc, fallback_rc, readme>>

mainVars == <<crates, include_examples, total_tasks>>
convVars == <<conv_results, conv_raises, conv_idx, conv_success, conv_error, conv_how>>
exVars == <<clone_attempts, primary_rc, fallback_rc, repo_has_examples, ex_ret>>
faultVars == <<exit_code, fault_cause>>

BoolStr(b) == IF b THEN "True" ELSE "False"

\* ---- decisions of the code ----

\* variant of TotalTasks: the examples task is always part of the total
TotalTasks_AlwaysThree(inc) == 3

\* main: total_tasks = 2 + (1 if include_examples else 0)
TotalTasks(inc) == 2 + (IF inc THEN 1 ELSE 0)

\* main: if success_count == total_tasks: Exit(0) else: Exit(1)
ExitCode(sc, tt) == IF sc = tt THEN 0 ELSE 1

\* variant of Counted: a completed stage is added twice
Counted_Double(sc, ret) == IF ret THEN sc + 2 ELSE sc

\* main: "if stage(...): success_count += 1"
Counted(sc, ret) == IF ret THEN sc + 1 ELSE sc

Init ==
  /\ crates \in CrateLists
  /\ include_examples \in BOOLEAN
  /\ pc = "start"
  /\ success_count = 0
  /\ total_tasks = 0
  /\ exit_code = -1
  /\ fault_cause = "none"
  /\ stages = <<>>
  /\ book_ret = "none"
  /\ build_ret = "none"
  /\ ex_ret = "none"
  /\ conv_ret = <<>>
  /\ conv_called = <<>>
  /\ crate_idx = 0
  /\ fs = {}
  /\ api_dirs = {}
  /\ book_has_src = FALSE
  /\ repo_has_examples = FALSE
  /\ doc_dirs = {}
  /\ copied = {}
  /\ rm_failed = {}
  /\ conv_results = <<>>
  /\ conv_raises = FALSE
  /\ conv_idx = 0
  /\ conv_success = 0
  /\ conv_error = 0
  /\ conv_how = "none"
  /\ clone_attempts = <<>>
  /\ primary_rc = -1
  /\ fallback_rc = -1
  /\ readme = <<>>

\* An exception leaves main: the interpreter prints the traceback and the
\* process ends with status 1 without reaching the summary.
Fault(cause) ==
  /\ pc' = "fault"
  /\ exit_code' = 1
  /\ fault_cause' = cause

\* main, up to the call of clone_iced_book
Start ==
  /\ pc = "start"
  /\ \E mkdir_ok \in BOOLEAN :
       IF mkdir_ok
       THEN /\ success_count' = 0
            /\ total_tasks' = TotalTasks(include_examples)
            /\ stages' = <<"book">>
            /\ pc' = "book_clone"
            /\ UNCHANGED faultVars
       ELSE /\ Fault("mkdir")
            /\ UNCHANGED <<success_count, total_tasks, stages>>
  /\ UNCHANGED <<crates, include_examples, book_ret, build_ret, conv_ret, conv_called, crate_idx, fs,
                 api_dirs, book_has_src, doc_dirs, copied, rm_failed,
                 convVars, exVars, readme>>

\* clone_iced_book returns r to main, which counts it and goes on to
\* build_cargo_docs
BookReturn(r) ==
  /\ book_ret' = BoolStr(r)
  /\ success_count' = Counted(success_count, r)
  /\ stages' = Append(stages, "api")
  /\ pc' = "build_mkdir"

\* clone_iced_book: git clone of the book into book-src
BookClone ==
  /\ pc = "book_clone"
  /\ \E outcome \in {"ok", "exit_nonzero", "no_git"}, has_src \in BOOLEAN :
       IF outcome = "ok"
       THEN /\ fs' = fs \cup {"book-src"}
            /\ book_has_src' = has_src
            /\ pc' = "book_copy"
            /\ UNCHANGED <<book_ret, success_count, stages>>
       ELSE \* CalledProcessError, or any other exception: return False
            /\ has_src = FALSE
            /\ BookReturn(FALSE)
            /\ UNCHANGED <<fs, book_has_src>>
  /\ UNCHANGED <<mainVars, faultVars, build_ret, conv_ret, conv_called, crate_idx, api_dirs, doc_dirs,
                 copied, rm_failed, convVars, exVars, readme>>

\* clone_iced_book: copy book-src/src to book
BookCopy ==
  /\ pc = "book_copy"
  /\ IF book_has_src
     THEN \E copy_ok \in BOOLEAN :
            IF copy_ok
            THEN /\ fs' = fs \cup {"book"}
                 /\ copied' = copied \cup {"book"}
                 /\ pc' = "book_rm"
                 /\ UNCHANGED <<book_ret, success_count, stages>>
            ELSE \* copytree raised: caught by "except Exception"
                 /\ \E partial \in BOOLEAN :
                      fs' = IF partial THEN fs \cup {"book"} ELSE fs
                 /\ BookReturn(FALSE)
                 /\ UNCHANGED copied
     ELSE /\ BookReturn(FALSE)
          /\ UNCHANGED <<fs, copied>>
  /\ UNCHANGED <<mainVars, faultVars, build_ret, conv_ret, conv_called, crate_idx, api_dirs,
                 book_has_src, doc_dirs, rm_failed, convVars, exVars, readme>>

\* clone_iced_book: shutil.rmtree(book_dir), then return True
BookRemove ==
  /\ pc = "book_rm"
  /\ \E rm_ok \in BOOLEAN :
       IF rm_ok
       THEN /\ fs' = fs \ {"book-src"}
            /\ BookReturn(TRUE)
            /\ UNCHANGED rm_failed
       ELSE \* rmtree raised: caught by "except Exception", return False
            /\ rm_failed' = rm_failed \cup {"book-src"}
            /\ BookReturn(FALSE)
            /\ UNCHANGED fs
  /\ UNCHANGED <<mainVars, faultVars, build_ret, conv_ret, conv_called, crate_idx, api_dirs,
                 book_has_src, doc_dirs, copied, convVars, exVars, readme>>

\* variant of RunsExamples: fetch_examples is called whatever the option
RunsExamples_Always(inc) == TRUE

\* main: "if include_examples:" guards the call of fetch_examples
RunsExamples(inc) == inc

\* main: after the API stage, "if include_examples:" calls fetch_examples,
\* otherwise create_index is next
EnterExamplesOrIndex ==
  IF RunsExamples(include_examples)
  THEN /\ pc' = "ex_clone"
       /\ stages' = Append(stages, "examples")
  ELSE /\ pc' = "index"
       /\ stages' = Append(stages, "index")

\* variant of ConvertsAfterBuild: the conversion loop is not guarded by the
\* result of build_cargo_docs
ConvertsAfterBuild_Always(built) == TRUE

\* main: "if build_cargo_docs(...):" guards the conversion loop
ConvertsAfterBuild(built) == built

\* build_cargo_docs: False on a non-zero returncode or a missing target/doc
BuildOutcome(returncode, doc_exists) == returncode = 0 /\ doc_exists

\* variant of ConvertOutcome: any failed file fails the crate
ConvertOutcome_NoErrors(success, error) == success # 0 /\ error = 0

\* convert_cargo_docs: "if success_count == 0: return False", else True
ConvertOutcome(success, error) == success # 0

\* variant of NextCrate: the crate loop breaks at the first failed conversion
NextCrate_BreakOnFailure(idx, ret) == IF ret THEN idx + 1 ELSE Len(crates) + 1

\* variant of NextCrate: the crate loop steps over every other crate
NextCrate_SkipOne(idx, ret) == idx + 2

\* main: the crate loop has no break; the next crate follows whatever
\* convert_cargo_docs returned
NextCrate(idx, ret) == idx + 1

\* variant of LoopDone: the crate loop ends before the last crate
LoopDone_Early(idx, n) == idx >= n

\* main: "for crate in crates" ends after the last crate
LoopDone(idx, n) == idx > n

\* variant of CountApi: the API task counts only if every crate converted
CountApi_IfAllConverted(sc, rets) ==
  IF \A i \in 1..Len(rets) : rets[i] THEN sc + 1 ELSE sc

\* main: "success_count += 1" after the crate loop, whatever the calls of
\* convert_cargo_docs returned
CountApi(sc, rets) == sc + 1

\* variant of CountResult: a failed file is not counted
CountResult_DropErrors(result, success, error) ==
  IF result = "err" THEN <<success, error>> ELSE <<success + 1, error>>

\* convert_cargo_docs: "if isinstance(result, Exception): error_count += 1
\* else: success_count += 1", as <<success_count, error_count>>
CountResult(result, success, error) ==
  IF result = "err" THEN <<success, error + 1>> ELSE <<success + 1, error>>

\* build_cargo_docs returns r to main
BuildReturn(r) ==
  /\ build_ret' = BoolStr(r)
  /\ IF ConvertsAfterBuild(r)
     THEN /\ pc' = "convert"
          /\ crate_idx' = 1
          /\ UNCHANGED stages
     ELSE /\ EnterExamplesOrIndex
          /\ UNCHANGED crate_idx

\* build_cargo_docs: temp_dir.mkdir, before the try block
BuildMkdir ==
  /\ pc = "build_mkdir"
  /\ \E mkdir_ok \in BOOLEAN :
       IF mkdir_ok
       THEN /\ fs' = fs \cup {"cargo-temp"}
            /\ pc' = "build_write"
            /\ UNCHANGED faultVars
       ELSE /\ Fault("mkdir")
            /\ UNCHANGED fs
  /\ UNCHANGED <<mainVars, success_count, stages, book_ret, build_ret, conv_ret, conv_called,
                 crate_idx, api_dirs, book_has_src, doc_dirs, copied, rm_failed,
                 convVars, exVars, readme>>

\* build_cargo_docs: write Cargo.toml and src/lib.rs
BuildWrite ==
  /\ pc = "build_write"
  /\ \E write_ok \in BOOLEAN :
       IF write_ok
       THEN /\ pc' = "build_cargo"
            /\ UNCHANGED <<build_ret, crate_idx, stages>>
       ELSE \* caught by "except Exception"
            BuildReturn(FALSE)
  /\ UNCHANGED <<mainVars, success_count, faultVars, book_ret, conv_ret, conv_called, fs,
                 api_dirs, book_has_src, doc_dirs, copied, rm_failed, convVars,
                 exVars, readme>>

\* build_cargo_docs: run cargo doc and look for target/doc
BuildCargo ==
  /\ pc = "build_cargo"
  /\ \E launched \in BOOLEAN, returncode \in {0, 101}, doc_exists \in BOOLEAN,
        dd \in SUBSET {crates[i] : i \in 1..Len(crates)} :
       IF launched
       THEN /\ doc_dirs' = IF doc_exists THEN dd ELSE {}
            /\ BuildReturn(BuildOutcome(returncode, doc_exists))
       ELSE \* cargo cannot be started: caught by "except Exception"
            /\ returncode = 101 /\ ~doc_exists /\ dd = {}
            /\ doc_dirs' = {}
            /\ BuildReturn(FALSE)
  /\ UNCHANGED <<mainVars, success_count, faultVars, book_ret, conv_ret, conv_called, fs,
                 api_dirs, book_has_src, copied, rm_failed, convVars, exVars,
                 readme>>

\* convert_cargo_docs(crates[crate_idx]): the doc_dir test and the call of
\* convert_directory
ConvertStart ==
  /\ pc = "convert"
  /\ crate_idx \in 1..Len(crates)
  /\ conv_idx' = 0
  /\ conv_success' = 0
  /\ conv_error' = 0
  /\ conv_called' = Append(conv_called, crates[crate_idx])
  /\ IF crates[crate_idx] \notin doc_dirs
     THEN /\ conv_results' = <<>>
          /\ conv_raises' = FALSE
          /\ conv_how' = "nodocs"
          /\ conv_ret' = Append(conv_ret, FALSE)
          /\ pc' = "conv_ret"
     ELSE /\ conv_results' \in ResultLists
          /\ conv_raises' \in BOOLEAN
          /\ conv_how' = "none"
          /\ pc' = "conv_loop"
          /\ UNCHANGED conv_ret
  /\ UNCHANGED <<mainVars, success_count, faultVars, stages, book_ret, build_ret,
                 crate_idx, fs, api_dirs, book_has_src, doc_dirs, copied,
                 rm_failed, exVars, readme>>

\* convert_cargo_docs: one iteration of "for input_file, result in ..."
ConvertFile ==
  /\ pc = "conv_loop"
  /\ conv_idx < Len(conv_results)
  /\ conv_idx' = conv_idx + 1
  /\ LET result == conv_results[conv_idx + 1]
         counts == CountResult(result, conv_success, conv_error)
     IN /\ conv_success' = counts[1]
        /\ conv_error' = counts[2]
        /\ api_dirs' = IF result = "err"
                       THEN api_dirs
                       ELSE api_dirs \cup {crates[crate_idx]}
  /\ UNCHANGED <<mainVars, pc, success_count, faultVars, stages, book_ret,
                 build_ret, conv_ret, conv_called, crate_idx, fs, book_has_src, doc_dirs,
                 copied, rm_failed, conv_results, conv_raises, conv_how, exVars,
                 readme>>

\* convert_cargo_docs: the converter stops yielding (exhausted or raising)
\* and the function returns
ConvertEnd ==
  /\ pc = "conv_loop"
  /\ conv_idx = Len(conv_results)
  /\ IF conv_raises
     THEN \* caught by "except Exception": return False
          /\ conv_how' = "raised"
          /\ conv_ret' = Append(conv_ret, FALSE)
     ELSE /\ conv_how' = "exhausted"
          /\ conv_ret' = Append(conv_ret, ConvertOutcome(conv_success, conv_error))
  /\ pc' = "conv_ret"
  /\ UNCHANGED <<mainVars, success_count, faultVars, stages, book_ret, build_ret,
                 conv_called, crate_idx, fs, api_dirs, book_has_src, doc_dirs, copied,
                 rm_failed, conv_results, conv_raises, conv_idx, conv_success,
                 conv_error, exVars, readme>>

\* main: back from convert_cargo_docs; next crate, or "success_count += 1"
\* after the last one
MainAfterConvert ==
  /\ pc = "conv_ret"
  /\ crate_idx' = NextCrate(crate_idx, conv_ret[Len(conv_ret)])
  /\ IF LoopDone(crate_idx', Len(crates))
     THEN /\ success_count' = CountApi(success_count, conv_ret)
          /\ pc' = "cleanup_cargo"
     ELSE /\ pc' = "convert"
          /\ UNCHANGED success_count
  /\ UNCHANGED <<mainVars, faultVars, stages, book_ret, build_ret, conv_ret, conv_called, fs,
                 api_dirs, book_has_src, doc_dirs, copied, rm_failed, convVars,
                 exVars, readme>>

\* main: "if temp_dir.exists(): shutil.rmtree(temp_dir)"
CleanupCargo ==
  /\ pc = "cleanup_cargo"
  /\ IF "cargo-temp" \in fs
     THEN \E rm_ok \in BOOLEAN :
            IF rm_ok
            THEN /\ fs' = fs \ {"cargo-temp"}
                 /\ doc_dirs' = {}
                 /\ EnterExamplesOrIndex
                 /\ UNCHANGED <<rm_failed, faultVars>>
            ELSE \* rmtree raised inside main: nothing catches it
                 /\ rm_failed' = rm_failed \cup {"cargo-temp"}
                 /\ Fault("remove")
                 /\ UNCHANGED <<fs, doc_dirs, stages>>
     ELSE /\ EnterExamplesOrIndex
          /\ UNCHANGED <<fs, doc_dirs, rm_failed, faultVars>>
  /\ UNCHANGED <<mainVars, success_count, book_ret, build_ret, conv_ret, conv_called,
                 crate_idx, api_dirs, book_has_src, copied, convVars, exVars,
                 readme>>

\* variant of FallbackNeeded: the default branch is cloned unconditionally
FallbackNeeded_Always(returncode) == TRUE

\* fetch_examples: "if result.returncode != 0:" tries the default branch
FallbackNeeded(returncode) == returncode # 0

\* fetch_examples returns r to main, which counts it and goes on to
\* create_index
ExReturn(r) ==
  /\ ex_ret' = BoolStr(r)
  /\ success_count' = Counted(success_count, r)
  /\ stages' = Append(stages, "index")
  /\ pc' = "index"

\* fetch_examples, "except subprocess.CalledProcessError": remove repo_dir
\* if it exists, errors ignored, and return False
ExHandler ==
  /\ IF "iced-repo-temp" \in fs
     THEN \E removed \in BOOLEAN :
            IF removed
            THEN /\ fs' = fs \ {"iced-repo-temp"}
                 /\ UNCHANGED rm_failed
            ELSE /\ rm_failed' = rm_failed \cup {"iced-repo-temp"}
                 /\ UNCHANGED fs
     ELSE UNCHANGED <<fs, rm_failed>>
  /\ ExReturn(FALSE)
  /\ UNCHANGED faultVars

\* fetch_examples: git clone --branch=<tag>
ExClonePrimary ==
  /\ pc = "ex_clone"
  /\ clone_attempts' = Append(clone_attempts, "tag")
  /\ \E launched \in BOOLEAN, returncode \in {0, 128} :
       IF launched
       THEN /\ primary_rc' = returncode
            /\ IF FallbackNeeded(returncode)
               THEN pc' = "ex_fallback"
               ELSE pc' = "ex_sparse"
            /\ fs' = IF returncode = 0 THEN fs \cup {"iced-repo-temp"} ELSE fs
            /\ UNCHANGED faultVars
       ELSE \* git cannot be started: not a CalledProcessError, nothing catches it
            /\ returncode = 128
            /\ Fault("launch")
            /\ UNCHANGED <<primary_rc, fs>>
  /\ UNCHANGED <<mainVars, fallback_rc, success_count, stages, book_ret, build_ret, ex_ret,
                 conv_ret, conv_called, crate_idx, api_dirs, book_has_src, repo_has_examples,
                 doc_dirs, copied, rm_failed, convVars, readme>>

\* fetch_examples: git clone of the default branch, check=True
ExCloneFallback ==
  /\ pc = "ex_fallback"
  /\ clone_attempts' = Append(clone_attempts, "default")
  /\ \E outcome \in {"ok", "exit_nonzero", "no_git"} :
       CASE outcome = "ok" ->
              /\ fallback_rc' = 0
              /\ fs' = fs \cup {"iced-repo-temp"}
              /\ pc' = "ex_sparse"
              /\ UNCHANGED <<ex_ret, success_count, stages, rm_failed, faultVars>>
         [] outcome = "exit_nonzero" ->
              \* check=True: CalledProcessError
              /\ fallback_rc' = 128
              /\ ExHandler
         [] outcome = "no_git" ->
              /\ Fault("launch")
              /\ UNCHANGED <<ex_ret, success_count, stages, rm_failed, fs,
                             fallback_rc>>
  /\ UNCHANGED <<mainVars, book_ret, build_ret, conv_ret, conv_called, crate_idx, api_dirs,
                 book_has_src, repo_has_examples, primary_rc, doc_dirs, copied,
                 convVars, readme>>

\* fetch_examples: git sparse-checkout set examples, check=True
ExSparse ==
  /\ pc = "ex_sparse"
  /\ \E outcome \in {"ok", "exit_nonzero", "no_git"}, has_examples \in BOOLEAN :
       CASE outcome = "ok" ->
              /\ repo_has_examples' = has_examples
              /\ pc' = "ex_copy"
              /\ UNCHANGED <<ex_ret, success_count, stages, rm_failed, fs, faultVars>>
         [] outcome = "exit_nonzero" ->
              /\ ~has_examples
              /\ ExHandler
              /\ UNCHANGED repo_has_examples
         [] outcome = "no_git" ->
              /\ ~has_examples
              /\ Fault("launch")
              /\ UNCHANGED <<ex_ret, success_count, stages, rm_failed, fs,
                             repo_has_examples>>
  /\ UNCHANGED <<mainVars, fallback_rc, book_ret, build_ret, conv_ret, conv_called, crate_idx, api_dirs,
                 book_has_src, clone_attempts, primary_rc, doc_dirs, copied,
                 convVars, readme>>

\* fetch_examples: copy iced-repo-temp/examples to examples, or give up
\* when it is missing
ExCopy ==
  /\ pc = "ex_copy"
  /\ IF repo_has_examples
     THEN \E copy_ok \in BOOLEAN :
            IF copy_ok
            THEN /\ fs' = fs \cup {"examples"}
                 /\ copied' = copied \cup {"examples"}
                 /\ pc' = "ex_rm"
                 /\ UNCHANGED <<ex_ret, success_count, stages, rm_failed, faultVars>>
            ELSE \* copytree raised: not a CalledProcessError, nothing catches it
                 /\ \E partial \in BOOLEAN :
                      fs' = IF partial THEN fs \cup {"examples"} ELSE fs
                 /\ Fault("copy")
                 /\ UNCHANGED <<ex_ret, success_count, stages, rm_failed, copied>>
     ELSE \* shutil.rmtree(repo_dir, ignore_errors=True); return False
          /\ ExHandler
          /\ UNCHANGED copied
  /\ UNCHANGED <<mainVars, fallback_rc, book_ret, build_ret, conv_ret, conv_called, crate_idx, api_dirs,
                 book_has_src, repo_has_examples, clone_attempts, primary_rc,
                 doc_dirs, convVars, readme>>

\* fetch_examples: shutil.rmtree(repo_dir), then return True
ExRemove ==
  /\ pc = "ex_rm"
  /\ \E rm_ok \in BOOLEAN :
       IF rm_ok
       THEN /\ fs' = fs \ {"iced-repo-temp"}
            /\ ExReturn(TRUE)
            /\ UNCHANGED <<rm_failed, faultVars>>
       ELSE \* rmtree raised: not a CalledProcessError, nothing catches it
            /\ rm_failed' = rm_failed \cup {"iced-repo-temp"}
            /\ Fault("remove")
            /\ UNCHANGED <<fs, ex_ret, success_count, stages>>
  /\ UNCHANGED <<mainVars, fallback_rc, book_ret, build_ret, conv_ret, conv_called, crate_idx, api_dirs,
                 book_has_src, repo_has_examples, clone_attempts, primary_rc,
                 doc_dirs, copied, convVars, readme>>

\* create_index: the text written to README.md, as a sequence of blocks
CreateIndex(cr, has_examples) ==
  <<<<"header">>>>
  \o [i \in 1..Len(cr) |-> <<"api", cr[i]>>]
  \o (IF has_examples THEN <<<<"examples">>>> ELSE <<>>)
  \o <<<<"footer">>>>

\* main: create_index(output_dir, crates, include_examples)
IndexArgs == [crates |-> crates, has_examples |-> include_examples]

\* main: the call of create_index
WriteIndex ==
  /\ pc = "index"
  /\ \E write_ok \in BOOLEAN :
       IF write_ok
       THEN /\ readme' = CreateIndex(IndexArgs.crates, IndexArgs.has_examples)
            /\ fs' = fs \cup {"README.md"}
            /\ pc' = "summary"
            /\ UNCHANGED faultVars
       ELSE \* write_text raised inside main: nothing catches it
            /\ Fault("write")
            /\ UNCHANGED <<readme, fs>>
  /\ UNCHANGED <<mainVars, success_count, stages, book_ret, build_ret, conv_ret, conv_called,
                 crate_idx, api_dirs, book_has_src, doc_dirs, copied, rm_failed,
                 convVars, exVars>>

\* main: the summary and typer.Exit
Summary ==
  /\ pc = "summary"
  /\ exit_code' = ExitCode(success_count, total_tasks)
  /\ UNCHANGED fault_cause
  /\ pc' = "done"
  /\ UNCHANGED <<mainVars, success_count, stages, book_ret, build_ret, conv_ret, conv_called,
                 crate_idx, fs, api_dirs, book_has_src, doc_dirs, copied,
                 rm_failed, convVars, exVars, readme>>

Next ==
  \/ Start
  \/ BookClone
  \/ BookCopy
  \/ BookRemove
  \/ BuildMkdir
  \/ BuildWrite
  \/ BuildCargo
  \/ ConvertStart
  \/ ConvertFile
  \/ ConvertEnd
  \/ MainAfterConvert
  \/ CleanupCargo
  \/ ExClonePrimary
  \/ ExCloneFallback
  \/ ExSparse
  \/ ExCopy
  \/ ExRemove
  \/ WriteIndex
  \/ Summary

Spec == Init /\ [][Next]_vars

\* ---- properties ----

Finished == pc \in {"done", "fault"}
Scratch == {"book-src", "cargo-temp", "iced-repo-temp"}
InConversion == pc \in {"convert", "conv_loop", "conv_ret"}
LastConvRet == conv_ret[Len(conv_ret)]
NumOk(results) == Cardinality({i \in 1..Len(results) : results[i] = "ok"})

\* every mandatory stage and the enabled optional stage reached Completed
AllCompleted ==
  /\ book_ret = "True"
  /\ build_ret = "True"
  /\ Len(conv_ret) = Len(crates)
  /\ \A i \in 1..Len(conv_ret) : conv_ret[i]
  /\ include_examples => ex_ret = "True"

\* C1: when main has raised typer.Exit, the exit code is 0 exactly when the
\* book retrieval, the API build, the conversion of every requested crate
\* and, if enabled, the examples stage completed; otherwise it is 1.
C1_ExitZeroIffAllCompleted ==
  pc = "done" => /\ exit_code \in {0, 1}
                 /\ exit_code = 0 <=> AllCompleted

\* the stage order of a complete run
StageOrder(inc) ==
  <<"book", "api">> \o (IF inc THEN <<"examples">> ELSE <<>>) \o <<"index">>

\* C2: every run that entered its first stage has, when it ends, run book,
\* API, examples (if enabled) and index in that order, index last, whatever
\* failed on the way.
C2_AllStagesRunInOrder ==
  (Finished /\ stages # <<>>) => stages = StageOrder(include_examples)

\* C3: no exception raised by a subprocess launch, a copy or the removal of
\* a temporary directory inside a stage leaves main.
C3_NoStageFaultEscapes ==
  ~(pc = "fault" /\ fault_cause \in {"launch", "copy", "remove"})

\* C4: once build_cargo_docs has returned False, convert_cargo_docs is not
\* called for any crate and no conversion result or output exists.
C4_NoConversionAfterFailedBuild ==
  build_ret = "False" =>
    /\ ~InConversion
    /\ conv_ret = <<>>
    /\ crate_idx = 0
    /\ api_dirs = {}

C4_Witness == build_ret = "False" /\ pc = "done"

C6_FailureDoesNotStopSiblings ==
  /\ (pc = "conv_ret" /\ conv_how \in {"exhausted", "raised"}) =>
       conv_idx = Len(conv_results)
  /\ (build_ret = "True" /\ ~InConversion) => Len(conv_ret) = Len(crates)

C6_Witness ==
  /\ pc = "conv_ret"
  /\ Len(conv_ret) = 2
  /\ ~conv_ret[1]
  /\ conv_results = <<"err", "ok">>
  /\ conv_idx = 2
  /\ conv_ret[2]

\* C7: when main has finished, book-src, cargo-temp and iced-repo-temp do
\* not exist.
C7_ScratchRemovedAtEnd ==
  pc = "done" => fs \cap Scratch = {}

\* C8: fetch_examples clones the tag first, clones the default branch only
\* after the tag clone returned non-zero, and makes no third attempt.
C8_FallbackAtMostOnce ==
  /\ Len(clone_attempts) <= 2
  /\ Len(clone_attempts) >= 1 => clone_attempts[1] = "tag"
  /\ Len(clone_attempts) = 2 =>
       (clone_attempts[2] = "default" /\ primary_rc \notin {-1, 0})
  /\ fallback_rc # -1 => Len(clone_attempts) = 2

C8_Witness ==
  /\ pc = "done"
  /\ clone_attempts = <<"tag", "default">>
  /\ primary_rc = 128
  /\ fallback_rc = 128
  /\ ex_ret = "False"

\* C9: when the removal of a scratch directory fails after the stage's own
\* work succeeded, the stage still ends as Completed: the book stage after
\* the book was copied, the API stage after the docs were built, the examples
\* stage after the examples were copied.
C9_CleanupFailureKeepsOutcome ==
  /\ ("book" \in copied /\ "book-src" \in rm_failed) => book_ret = "True"
  /\ (build_ret = "True" /\ "cargo-temp" \in rm_failed) => pc # "fault"
  /\ ("examples" \in copied /\ "iced-repo-temp" \in rm_failed) => ex_ret = "True"

\* crates listed in README.md, and whether it has the examples section
IndexCrates == {readme[i][2] : i \in {j \in 1..Len(readme) : readme[j][1] = "api"}}
IndexHasExamples == \E i \in 1..Len(readme) : readme[i][1] = "examples"

\* C10: the written README.md lists <crate>-api exactly for the crates whose
\* converted output was produced, and has the examples section exactly when
\* the examples stage was enabled and succeeded.
C10_IndexDescribesMaterialized ==
  readme # <<>> =>
    /\ IndexCrates = api_dirs
    /\ IndexHasExamples <=> (include_examples /\ ex_ret = "True")

\* C11: when the run has ended, the examples directory exists only if the
\* examples stage was enabled and fetch_examples returned True.
C11_ExamplesOnlyWhenCompleted ==
  Finished => ("examples" \in fs => (include_examples /\ ex_ret = "True"))

\* what the book, API and examples stages have added to success_count
BookPart == IF book_ret = "True" THEN 1 ELSE 0
ApiPart == IF build_ret = "True" /\ ~InConversion THEN 1 ELSE 0
ExamplesPart == IF ex_ret = "True" THEN 1 ELSE 0

\* C12: once main has set its counters, total_tasks counts the examples
\* stage exactly when include_examples is on (3 against 2); with the option
\* off fetch_examples has no outcome and adds nothing to success_count, with
\* it on the stage adds exactly its own outcome.
C12_OptionalStageCountedWhenEnabled ==
  stages # <<>> =>
    /\ total_tasks = (IF include_examples THEN 3 ELSE 2)
    /\ ~include_examples => (ex_ret = "none" /\ success_count = BookPart + ApiPart)
    /\ include_examples => success_count = BookPart + ApiPart + ExamplesPart

C12_Witness ==
  /\ pc = "done"
  /\ include_examples
  /\ ex_ret = "True"
  /\ total_tasks = 3
  /\ success_count = 3

AllConverted == \A i \in 1..Len(conv_ret) : conv_ret[i]

C15_FallbackSuccessCompletes ==
  (/\ pc \in {"index", "summary", "done", "fault"}
   /\ primary_rc = 128
   /\ fallback_rc = 0
   /\ "examples" \in copied) =>
     /\ ex_ret = "True"
     /\ success_count = BookPart + ApiPart + 1
     /\ clone_attempts = <<"tag", "default">>

NumErr(results) == Cardinality({i \in 1..Len(results) : results[i] = "err"})

\* C16: when convert_cargo_docs returns after the converter's sequence is
\* exhausted, success_count + error_count is the number of yielded files,
\* error_count the number of failed ones.
C16_EveryFileCountedOnce ==
  (pc = "conv_ret" /\ conv_how = "exhausted") =>
    /\ conv_success + conv_error = Len(conv_results)
    /\ conv_error = NumErr(conv_results)

C16_Witness ==
  /\ pc = "conv_ret"
  /\ conv_how = "exhausted"
  /\ conv_results = <<"err", "ok">>
  /\ conv_success = 1
  /\ conv_error = 1

\* C17: convert_cargo_docs runs only while cargo-temp exists, and once
\* cargo-temp has been removed after a successful build convert_cargo_docs
\* has returned for every requested crate and nothing of cargo-temp is left
\* to be read by the later stages.
C17_CargoTempNotReadAfterRemoval ==
  /\ InConversion => "cargo-temp" \in fs
  /\ (build_ret = "True" /\ "cargo-temp" \notin fs) =>
       /\ ~InConversion
       /\ conv_called = crates
       /\ Len(conv_ret) = Len(crates)
       /\ doc_dirs = {}

C17_Witness ==
  /\ pc = "done"
  /\ build_ret = "True"
  /\ "cargo-temp" \notin fs
  /\ Len(crates) = 2
  /\ ex_ret # "none"
  /\ readme # <<>>

\* C18: the share of the API task in success_count is 1 exactly when
\* build_cargo_docs returned True and main has left the crate loop, and 0
\* otherwise, whatever convert_cargo_docs returned.
C18_ApiCountedIffBuilt ==
  LET api == success_count - BookPart - ExamplesPart
  IN /\ api \in {0, 1}
     /\ api = 1 <=> (build_ret = "True" /\ ~InConversion)

C18_Witness ==
  /\ pc = "done"
  /\ build_ret = "True"
  /\ Len(conv_ret) = Len(crates)
  /\ \A i \in 1..Len(conv_ret) : ~conv_ret[i]
  /\ success_count = BookPart + 1 + ExamplesPart

\* number of stage functions that have returned to main
Returned ==
  (IF book_ret # "none" THEN 1 ELSE 0)
  + (IF build_ret # "none" THEN 1 ELSE 0)
  + (IF ex_ret # "none" THEN 1 ELSE 0)

\* C19: in every state 0 <= success_count <= total_tasks; from the first
\* stage on total_tasks is 2 with the examples off and 3 with them on; and
\* success_count never exceeds the number of stages that have returned.
C19_SuccessCountBounded ==
  /\ 0 <= success_count
  /\ success_count <= total_tasks
  /\ success_count <= Returned
  /\ stages # <<>> => total_tasks = (IF include_examples THEN 3 ELSE 2)

C19_Witness ==
  /\ pc = "done"
  /\ total_tasks = 3
  /\ success_count = 3
  /\ Returned = 3

ExamplesPcs == {"ex_clone", "ex_fallback", "ex_sparse", "ex_copy", "ex_rm"}

\* C20: with include_examples off fetch_examples is never entered: no clone
\* of the iced repository is attempted and neither iced-repo-temp nor
\* examples comes to exist.
C20_NoExamplesWorkWhenDisabled ==
  ~include_examples =>
    /\ pc \notin ExamplesPcs
    /\ \A i \in 1..Len(stages) : stages[i] # "examples"
    /\ clone_attempts = <<>>
    /\ primary_rc = -1
    /\ fallback_rc = -1
    /\ ex_ret = "none"
    /\ "iced-repo-temp" \notin fs
    /\ "examples" \notin fs
    /\ "examples" \notin copied

C20_Witness ==
  /\ ~include_examples
  /\ pc = "done"
  /\ stages = <<"book", "api", "index">>
====
